---------------------------- MODULE Spec2Model ----------------------------
(***************************************************************************)
(* A model of the Universal Machine interpreter of src/src/main.rs.        *)
(*                                                                         *)
(* A u32 is the pair <<hi, lo>> of its two 16-bit halves (hi = bits 31-16, *)
(* lo = bits 15-0), so that every 32-bit value, 0xFFFFFFFF included, is    *)
(* represented exactly.  A usize (the finger, an index) is the same pair   *)
(* with an unbounded high part.                                            *)
(***************************************************************************)
EXTENDS Integers, Sequences, FiniteSets, TLC

\* 2^16: the radix of the two halves of a u32.
Half == 65536

U32(hi, lo) == <<hi, lo>>

\* A small number as a u32.
Lit(n) == <<0, n>>

Zero == Lit(0)

\* 0xFFFFFFFF
AllOnes == <<Half - 1, Half - 1>>

-----------------------------------------------------------------------------
(* u32 arithmetic, as the standard library computes it                      *)

\* Mutant of wrapping_add: the sum saturates at 0xFFFFFFFF (saturating_add)
saturating_add(x, y) ==
    LET lo == x[2] + y[2]
        hi == x[1] + y[1] + (lo \div Half)
    IN  IF hi >= Half THEN <<Half - 1, Half - 1>> ELSE <<hi, lo % Half>>

\* u32::wrapping_add
wrapping_add(x, y) ==
    LET lo == x[2] + y[2]
    IN  <<(x[1] + y[1] + (lo \div Half)) % Half, lo % Half>>

\* The full 32-bit product <<hi, lo>> of two 16-bit numbers, by 8-bit digits.
Mul16(x, y) ==
    LET x1 == x \div 256
        x0 == x % 256
        y1 == y \div 256
        y0 == y % 256
        p0 == x0 * y0
        p1 == x1 * y0 + x0 * y1
        p2 == x1 * y1
        low == p0 + (p1 % 256) * 256
    IN  <<p2 + (p1 \div 256) + (low \div Half), low % Half>>

\* u32::wrapping_mul: (xh*2^16 + xl) * (yh*2^16 + yl) mod 2^32
wrapping_mul(x, y) ==
    LET ll == Mul16(x[2], y[2])
        hl == Mul16(x[1], y[2])
        lh == Mul16(x[2], y[1])
    IN  <<(ll[1] + hl[2] + lh[2]) % Half, ll[2]>>

\* x < y on pairs
Less(x, y) == x[1] < y[1] \/ (x[1] = y[1] /\ x[2] < y[2])

\* x - y on pairs, for y <= x
Minus(x, y) ==
    IF x[2] >= y[2] THEN <<x[1] - y[1], x[2] - y[2]>>
    ELSE <<x[1] - y[1] - 1, x[2] + Half - y[2]>>

\* Bit i (0..31) of a u32
BitOf(x, i) == IF i >= 16 THEN (x[1] \div (2 ^ (i - 16))) % 2 ELSE (x[2] \div (2 ^ i)) % 2

\* 2*r + bit on pairs (the high part may exceed 16 bits)
ShiftIn(r, bit) ==
    LET lo == 2 * r[2] + bit
    IN  <<2 * r[1] + (lo \div Half), lo % Half>>

\* Restoring long division of x by y # 0 from bit i down to bit 0:
\* acc = <<quotient so far, remainder so far>>.
RECURSIVE LongDiv(_, _, _, _)
LongDiv(x, y, i, acc) ==
    IF i < 0 THEN acc
    ELSE LET r  == ShiftIn(acc[2], BitOf(x, i))
             q  == ShiftIn(acc[1], 0)
         IN  IF Less(r, y)
             THEN LongDiv(x, y, i - 1, <<q, r>>)
             ELSE LongDiv(x, y, i - 1, <<<<q[1], q[2] + 1>>, Minus(r, y)>>)

\* u32::wrapping_div for a divisor # 0 (a zero divisor panics, see Division)
wrapping_div(x, y) == LongDiv(x, y, 31, <<Zero, Zero>>)[1]

\* Bitwise and of two n-bit numbers
RECURSIVE BitAnd(_, _, _)
BitAnd(x, y, n) ==
    IF n = 0 THEN 0
    ELSE 2 * BitAnd(x \div 2, y \div 2, n - 1) + (x % 2) * (y % 2)

\* !(x & y) on u32
nand(x, y) ==
    <<(Half - 1) - BitAnd(x[1], y[1], 16), (Half - 1) - BitAnd(x[2], y[2], 16)>>

-----------------------------------------------------------------------------
(* The instruction decoder                                                  *)

\* (p >> 28) as u8
op_code(p) == (p[1] \div 4096) % 256

\* Mutant of rega_offset: the shift is 5, not 6
rega_offset_shift5(p) == (p[2] \div 32) % 8

\* ((p >> 6) & 7) as usize
rega_offset(p) == (p[2] \div 64) % 8

\* ((p >> 3) & 7) as usize
regb_offset(p) == (p[2] \div 8) % 8

\* (p & 7) as usize
regc_offset(p) == p[2] % 8

\* ((p >> 25) & 7) as usize
rego_offset(p) == (p[1] \div 512) % 8

\* p & 0x1ffffff
rego_value(p) == <<p[1] % 512, p[2]>>

\* tests::make_platter: op << 28 | a << 6 | b << 3 | c
make_platter(op, a, b, c) == <<op * 4096, a * 64 + b * 8 + c>>

\* The immediate-load word the decoder reads as opcode 13, register r, value v
\* (v < 2^16), as in tests::test_13_orthography.
make_ortho(r, v) == <<13 * 4096 + r * 512, v>>

-----------------------------------------------------------------------------
(* Text written to standard output                                          *)

\* x divided by ten: <<quotient, remainder>>
DivMod10(x) ==
    LET r  == x[1] % 10
        lo == r * Half + x[2]
    IN  <<<<x[1] \div 10, lo \div 10>>, lo % 10>>

\* The decimal digits (ASCII) of a u32, as {} and {:?} print it
RECURSIVE fmt_u32(_)
fmt_u32(x) ==
    LET qr == DivMod10(x)
    IN  IF qr[1] = Zero THEN <<48 + qr[2]>>
        ELSE Append(fmt_u32(qr[1]), 48 + qr[2])

\* {:?} of the register array: "[r0, r1, ..., r7]"
RECURSIVE fmt_list(_, _)
fmt_list(regs, i) ==
    IF i = 7 THEN fmt_u32(regs[7])
    ELSE fmt_u32(regs[i]) \o <<44, 32>> \o fmt_list(regs, i + 1)

fmt_registers(regs) == <<91>> \o fmt_list(regs, 0) \o <<93>>

\* "\nUM: Halt." and the newline println! adds
HaltBanner == <<10, 85, 77, 58, 32, 72, 97, 108, 116, 46, 10>>

\* What Halt prints: the banner, then the registers and a newline
halt_report(regs) == HaltBanner \o fmt_registers(regs) \o <<10>>

\* "Unknown OP: "
UnknownBanner == <<85, 110, 107, 110, 111, 119, 110, 32, 79, 80, 58, 32>>

\* What the default arm prints
unknown_report(op) == UnknownBanner \o fmt_u32(Lit(op)) \o <<10>>

\* char::from_u32(x).is_some(): not a surrogate, at most 0x10FFFF
valid_char(x) ==
    \/ x[1] = 0 /\ (x[2] < 55296 \/ x[2] >= 57344)
    \/ x[1] >= 1 /\ x[1] <= 16

\* The UTF-8 bytes print! writes for the code point x (valid_char(x))
utf8(x) ==
    LET cp == x[1] * Half + x[2]
    IN  IF cp < 128 THEN <<cp>>
        ELSE IF cp < 2048 THEN <<192 + (cp \div 64), 128 + (cp % 64)>>
        ELSE IF cp < Half
             THEN <<224 + (cp \div 4096), 128 + ((cp \div 64) % 64), 128 + (cp % 64)>>
        ELSE <<240 + (cp \div 262144), 128 + ((cp \div 4096) % 64),
               128 + ((cp \div 64) % 64), 128 + (cp % 64)>>

-----------------------------------------------------------------------------
(* The machine                                                              *)

VARIABLES
    registers,  \* UM.registers: [0..7 -> u32]
    programs,   \* UM.programs: the segment table, programs[i + 1] is segment i
    finger,     \* UM.finger: a usize
    freelist,   \* UM.freelist: a stack of u32, its top last
    stdin,      \* the bytes standard input still holds
    stdout,     \* the bytes written to standard output
    pc,         \* "running" (in the loop), "halted" (left it by break), "panicked"
    live,       \* history: the identifiers allocated and not abandoned since
    steps       \* history: the number of loop iterations begun

vars == <<registers, programs, finger, freelist, stdin, stdout, pc, live, steps>>

\* The most loop iterations a run of the model makes
MaxSteps == 24

\* The longest segment an Allocation of the model creates
MaxSegLen == 4

\* x as usize is an index below n
Below(x, n) == x[1] = 0 /\ x[2] < n

\* x as usize indexes the segment table
InTable(x) == Below(x, Len(programs))

\* self.programs[x as usize], for InTable(x)
Segment(x) == programs[x[2] + 1]

\* n as u32
AsU32(n) == <<(n \div Half) % Half, n % Half>>

\* finger + 1 on a usize
Succ(f) == IF f[2] + 1 = Half THEN <<f[1] + 1, 0>> ELSE <<f[1], f[2] + 1>>

\* vec![0; n as usize]
zero_vec(n) == [i \in 1..n[2] |-> Zero]

\* The loop is at its head and may begin an iteration
Running == pc = "running" /\ steps < MaxSteps

\* self.programs[0][self.finger] is in bounds
Fetchable == Below(finger, Len(programs[1]))

\* p = self.programs[0][self.finger]
Fetched == programs[1][finger[2] + 1]

\* The iteration decodes operation op
Decoded(op) == Running /\ Fetchable /\ op_code(Fetched) = op

A == rega_offset(Fetched)
B == regb_offset(Fetched)
C == regc_offset(Fetched)

\* Mutant of Advance: the finger is incremented twice
AdvanceTwice == finger' = Succ(Succ(finger)) /\ pc' = "running" /\ steps' = steps + 1

\* self.finger += 1 at the end of the iteration
Advance == finger' = Succ(finger) /\ pc' = "running" /\ steps' = steps + 1

\* An index out of bounds, a division by zero or an unwrap of None/Err: the
\* thread panics and the process ends, the finger where it was.
Panic == finger' = finger /\ pc' = "panicked" /\ steps' = steps + 1

-----------------------------------------------------------------------------
(* The inputs of a run: the program image and the bytes on standard input   *)

\* Standard-form words by operation
CMov(a, b, c)  == make_platter(0, a, b, c)
Index(a, b, c) == make_platter(1, a, b, c)
Amend(a, b, c) == make_platter(2, a, b, c)
Add(a, b, c)   == make_platter(3, a, b, c)
Mul(a, b, c)   == make_platter(4, a, b, c)
Div(a, b, c)   == make_platter(5, a, b, c)
NandW(a, b, c) == make_platter(6, a, b, c)
HaltW          == make_platter(7, 0, 0, 0)
Alloc(b, c)    == make_platter(8, 0, b, c)
Abandon(c)     == make_platter(9, 0, 0, c)
Out(c)         == make_platter(10, 0, 0, c)
In(c)          == make_platter(11, 0, 0, c)
Load(b, c)     == make_platter(12, 0, b, c)

\* The start of the generated images: r1 = 1, r2 = 2, r3 = 0xFFFFFFFF,
\* r4 = segment 1 = <<0, 0>>, r5 = segment 2 = <<0xFFFFFFFF>>.
Prelude ==
    << make_ortho(1, 1), make_ortho(2, 2), NandW(3, 0, 0),
       Alloc(4, 2), Alloc(5, 1), Amend(5, 0, 3) >>

\* The words a generated image continues with
Platters ==
    { CMov(6, 1, 0), CMov(6, 2, 1),
      Index(6, 4, 0), Index(6, 3, 0), Index(6, 5, 1), Index(6, 5, 0),
      Amend(4, 1, 3), Amend(5, 0, 2), Amend(0, 1, 2),
      Add(6, 3, 1), Mul(6, 3, 2), Div(6, 3, 2), Div(6, 3, 6), Div(7, 6, 0), NandW(6, 3, 1),
      HaltW,
      Alloc(6, 2), Alloc(7, 0),
      Abandon(5), Abandon(4), Abandon(0), Abandon(3),
      Out(3), Out(6), In(6),
      Load(0, 0), Load(4, 0), Load(3, 0),
      make_ortho(6, 65),
      <<14 * 4096, 0>>, <<15 * 4096 + 1, 7>> }

\* The longest continuation of the prelude
MaxBody == 2

RECURSIVE SeqsUpTo(_, _)
SeqsUpTo(S, n) ==
    IF n = 0 THEN {<<>>}
    ELSE LET shorter == SeqsUpTo(S, n - 1)
         IN  shorter \cup {Append(q, x) : q \in shorter, x \in S}

\* "Hi": two immediates, two outputs, halt
HiImage ==
    << make_ortho(0, 72), make_ortho(1, 105), Out(0), Out(1), HaltW >>

\* Allocate four words, store 42 at offset 2, read it back into r5, halt
StoreLoadImage ==
    << make_ortho(1, 4), Alloc(2, 1), make_ortho(3, 2), make_ortho(4, 42),
       Amend(2, 3, 4), Index(5, 2, 3), HaltW >>

\* Abandon segment 2 twice, then allocate twice
DoubleFreeImage ==
    Prelude \o << Abandon(5), Abandon(5), Alloc(6, 1), Alloc(7, 2), Amend(6, 0, 1), HaltW >>

\* Allocate and abandon in a loop
ChurnImage ==
    << make_ortho(1, 1), Alloc(2, 1), Abandon(2), Load(0, 0) >>

\* Copy the three words at offsets 15..17 into a new three-word segment
\* (r5 walks the source, r7 the destination) and load it as the program.
CopyLoader ==
    << make_ortho(1, 1), make_ortho(2, 3), Alloc(4, 2), make_ortho(5, 15),
       Index(6, 0, 5), Amend(4, 7, 6), Add(5, 5, 1), Add(7, 7, 1),
       Index(6, 0, 5), Amend(4, 7, 6), Add(5, 5, 1), Add(7, 7, 1),
       Index(6, 0, 5), Amend(4, 7, 6),
       Load(4, 0) >>

\* The loaded program amends the segment it came from, then segment 0, and halts.
CopyImage ==
    CopyLoader \o << Amend(4, 0, 1), Amend(0, 0, 2), HaltW >>

\* As CopyImage, but the loaded program abandons the segment it came from
\* and then reads its own second word.
CopyAbandonImage ==
    CopyLoader \o << Abandon(4), Index(7, 0, 1), HaltW >>

\* Overwrite the next instruction (offset 4) with the word at offset 7
SelfModifyImage ==
    << make_ortho(1, 7), Index(6, 0, 1), make_ortho(2, 4), Amend(0, 2, 6),
       make_ortho(7, 1), Out(7), HaltW, make_ortho(7, 66) >>

\* Overwrite the instruction two words ahead (offset 5) with the word at
\* offset 8
SelfModifyLaterImage ==
    << make_ortho(1, 8), Index(6, 0, 1), make_ortho(2, 5), Amend(0, 2, 6),
       make_ortho(3, 9), make_ortho(7, 1), Out(7), HaltW, make_ortho(7, 66) >>

\* Jump forward over a word with Load Program, segment 0 kept
JumpImage ==
    << make_ortho(1, 3), Load(0, 1), Out(3), make_ortho(7, 33), Out(7), HaltW >>

\* Jump to offset 0xFFFFFFFF with Load Program, segment 0 kept
FarJumpImage == << NandW(3, 0, 0), Load(0, 3) >>

\* Abandon segment 2 twice, allocate it, store 1 in it, allocate again and
\* read the word back into r7
DoubleFreeLostImage ==
    Prelude \o << Abandon(5), Abandon(5), Alloc(6, 1), Amend(6, 0, 1), Alloc(7, 2),
                  Index(7, 6, 0), HaltW >>

\* The operand values of the arithmetic images
ArithSamples ==
    { Zero, Lit(1), Lit(2), <<0, 65535>>, <<1, 0>>, <<32767, 65535>>, <<32768, 0>>,
      <<43690, 21845>>, AllOnes }

\* r1 = a and r2 = b (the words at offsets 11 and 12), r3 = a + b, r4 = a * b,
\* r5 = Nand(b, b) + 1, r6 = r3 + r5
ArithImage(a, b) ==
    << make_ortho(7, 11), Index(1, 0, 7), make_ortho(7, 12), Index(2, 0, 7),
       Add(3, 1, 2), Mul(4, 1, 2), NandW(5, 2, 2), make_ortho(6, 1), Add(5, 5, 6),
       Add(6, 3, 5), HaltW, a, b >>

\* One-word images: every opcode, with the bits 27-16 and 15-0 clear, set and mixed
WordSamples ==
    { <<op * 4096 + h, l>> : op \in 0..15, h \in {0, 4095}, l \in {0, 339, 65024, 65535} }

Scenarios ==
    { <<>>, HiImage, StoreLoadImage, DoubleFreeImage, ChurnImage, CopyImage,
      CopyAbandonImage, SelfModifyImage, SelfModifyLaterImage, JumpImage, FarJumpImage, DoubleFreeLostImage }

Images ==
    {Prelude \o body : body \in SeqsUpTo(Platters, MaxBody)}
        \cup Scenarios
        \cup {ArithImage(a, b) : a, b \in ArithSamples}
        \cup {<<w>> : w \in WordSamples}

Inputs == {<<>>, <<255, 10>>}

\* The program image main loads, and the bytes on standard input
Init ==
    /\ registers = [i \in 0..7 |-> Zero]
    /\ programs \in {<<image>> : image \in Images}
    /\ finger = <<0, 0>>
    /\ freelist = <<>>
    /\ stdin \in Inputs
    /\ stdout = <<>>
    /\ pc = "running"
    /\ live = {Zero}
    /\ steps = 0

\* Mutant of FetchFault: a finger outside segment 0 wraps to offset 0
FetchFaultWraps ==
    /\ Running
    /\ ~Fetchable
    /\ finger' = <<0, 0>>
    /\ pc' = "running"
    /\ steps' = steps + 1
    /\ UNCHANGED <<registers, programs, freelist, stdin, stdout, live>>

\* Loop entry with the finger outside segment 0: the index panics
FetchFault ==
    /\ Running
    /\ ~Fetchable
    /\ Panic
    /\ UNCHANGED <<registers, programs, freelist, stdin, stdout, live>>

\* Mutant of ConditionalMove: reg[C] is not tested
ConditionalMoveAlways ==
    /\ Decoded(0)
    /\ registers' = [registers EXCEPT ![A] = registers[B]]
    /\ Advance
    /\ UNCHANGED <<programs, freelist, stdin, stdout, live>>

\* 0: Conditional Move
ConditionalMove ==
    /\ Decoded(0)
    /\ registers' = IF registers[C] # Zero
                    THEN [registers EXCEPT ![A] = registers[B]]
                    ELSE registers
    /\ Advance
    /\ UNCHANGED <<programs, freelist, stdin, stdout, live>>

\* 1: Array Index
ArrayIndex ==
    /\ Decoded(1)
    /\ IF InTable(registers[B]) /\ Below(registers[C], Len(Segment(registers[B])))
       THEN /\ registers' = [registers EXCEPT
                                ![A] = Segment(registers[B])[registers[C][2] + 1]]
            /\ Advance
       ELSE /\ Panic
            /\ UNCHANGED registers
    /\ UNCHANGED <<programs, freelist, stdin, stdout, live>>

\* Mutant of ArrayAmendment: a write to segment 0 does not reach the words
\* the loop fetches
ArrayAmendmentSkipsProgram ==
    /\ Decoded(2)
    /\ IF InTable(registers[A]) /\ Below(registers[B], Len(Segment(registers[A])))
       THEN /\ programs' = IF registers[A] = Zero
                           THEN programs
                           ELSE [programs EXCEPT
                                    ![registers[A][2] + 1][registers[B][2] + 1] = registers[C]]
            /\ Advance
       ELSE /\ Panic
            /\ UNCHANGED programs
    /\ UNCHANGED <<registers, freelist, stdin, stdout, live>>

\* 2: Array Amendment
ArrayAmendment ==
    /\ Decoded(2)
    /\ IF InTable(registers[A]) /\ Below(registers[B], Len(Segment(registers[A])))
       THEN /\ programs' = [programs EXCEPT
                               ![registers[A][2] + 1][registers[B][2] + 1] = registers[C]]
            /\ Advance
       ELSE /\ Panic
            /\ UNCHANGED programs
    /\ UNCHANGED <<registers, freelist, stdin, stdout, live>>

\* 3: Addition
Addition ==
    /\ Decoded(3)
    /\ registers' = [registers EXCEPT ![A] = wrapping_add(registers[B], registers[C])]
    /\ Advance
    /\ UNCHANGED <<programs, freelist, stdin, stdout, live>>

\* 4: Multiplication
Multiplication ==
    /\ Decoded(4)
    /\ registers' = [registers EXCEPT ![A] = wrapping_mul(registers[B], registers[C])]
    /\ Advance
    /\ UNCHANGED <<programs, freelist, stdin, stdout, live>>

\* Mutant of Division: a zero divisor yields 0 (checked_div().unwrap_or(0))
DivisionLenient ==
    /\ Decoded(5)
    /\ registers' = [registers EXCEPT
                        ![A] = IF registers[C] # Zero
                               THEN wrapping_div(registers[B], registers[C])
                               ELSE Zero]
    /\ Advance
    /\ UNCHANGED <<programs, freelist, stdin, stdout, live>>

\* 5: Division; wrapping_div panics on a zero divisor
Division ==
    /\ Decoded(5)
    /\ IF registers[C] # Zero
       THEN /\ registers' = [registers EXCEPT
                                ![A] = wrapping_div(registers[B], registers[C])]
            /\ Advance
       ELSE /\ Panic
            /\ UNCHANGED registers
    /\ UNCHANGED <<programs, freelist, stdin, stdout, live>>

\* 6: Nand
Nand ==
    /\ Decoded(6)
    /\ registers' = [registers EXCEPT ![A] = nand(registers[B], registers[C])]
    /\ Advance
    /\ UNCHANGED <<programs, freelist, stdin, stdout, live>>

\* Mutant of Halt: the report is printed but the loop is not left
HaltContinues ==
    /\ Decoded(7)
    /\ stdout' = stdout \o halt_report(registers)
    /\ Advance
    /\ UNCHANGED <<registers, programs, freelist, stdin, live>>

\* 7: Halt prints the registers and breaks out of the loop
Halt ==
    /\ Decoded(7)
    /\ stdout' = stdout \o halt_report(registers)
    /\ pc' = "halted"
    /\ steps' = steps + 1
    /\ UNCHANGED <<registers, programs, finger, freelist, stdin, live>>

\* Mutant of Allocation: the free list is ignored, every identifier is new
AllocationMints ==
    /\ Decoded(8)
    /\ Below(registers[C], MaxSegLen + 1)
    /\ registers' = [registers EXCEPT ![B] = AsU32(Len(programs))]
    /\ programs' = Append(programs, zero_vec(registers[C]))
    /\ live' = live \cup {AsU32(Len(programs))}
    /\ Advance
    /\ UNCHANGED <<freelist, stdin, stdout>>

\* 8: Allocation
Allocation ==
    /\ Decoded(8)
    /\ Below(registers[C], MaxSegLen + 1)
    /\ IF freelist # <<>>
       THEN LET i == freelist[Len(freelist)]
            IN  /\ freelist' = SubSeq(freelist, 1, Len(freelist) - 1)
                /\ registers' = [registers EXCEPT ![B] = i]
                /\ live' = live \cup {i}
                /\ IF InTable(i)
                   THEN /\ programs' = [programs EXCEPT ![i[2] + 1] = zero_vec(registers[C])]
                        /\ Advance
                   ELSE /\ Panic
                        /\ UNCHANGED programs
       ELSE /\ registers' = [registers EXCEPT ![B] = AsU32(Len(programs))]
            /\ programs' = Append(programs, zero_vec(registers[C]))
            /\ live' = live \cup {AsU32(Len(programs))}
            /\ Advance
            /\ UNCHANGED freelist
    /\ UNCHANGED <<stdin, stdout>>

\* Mutant of Abandonment: the identifier is pushed, the storage is kept
AbandonmentKeepsStorage ==
    /\ Decoded(9)
    /\ freelist' = Append(freelist, registers[C])
    /\ live' = live \ {registers[C]}
    /\ IF InTable(registers[C]) THEN Advance ELSE Panic
    /\ UNCHANGED <<registers, programs, stdin, stdout>>

\* Mutant of Abandonment: the segment is cleared but its identifier is not
\* pushed onto the free list
AbandonmentLeaks ==
    /\ Decoded(9)
    /\ live' = live \ {registers[C]}
    /\ IF InTable(registers[C])
       THEN /\ programs' = [programs EXCEPT ![registers[C][2] + 1] = <<>>]
            /\ Advance
       ELSE /\ Panic
            /\ UNCHANGED programs
    /\ UNCHANGED <<registers, freelist, stdin, stdout>>

\* 9: Abandonment pushes the identifier, then empties the segment
Abandonment ==
    /\ Decoded(9)
    /\ freelist' = Append(freelist, registers[C])
    /\ live' = live \ {registers[C]}
    /\ IF InTable(registers[C])
       THEN /\ programs' = [programs EXCEPT ![registers[C][2] + 1] = <<>>]
            /\ Advance
       ELSE /\ Panic
            /\ UNCHANGED programs
    /\ UNCHANGED <<registers, stdin, stdout>>

\* 10: Output
Output ==
    /\ Decoded(10)
    /\ IF valid_char(registers[C])
       THEN /\ stdout' = stdout \o utf8(registers[C])
            /\ Advance
       ELSE /\ Panic
            /\ UNCHANGED stdout
    /\ UNCHANGED <<registers, programs, freelist, stdin, live>>

\* 11: Input; read_exact fails at the end of the stream and unwrap panics
Input ==
    /\ Decoded(11)
    /\ IF stdin # <<>>
       THEN /\ registers' = [registers EXCEPT ![C] = Lit(Head(stdin))]
            /\ stdin' = Tail(stdin)
            /\ Advance
       ELSE /\ Panic
            /\ UNCHANGED <<registers, stdin>>
    /\ UNCHANGED <<programs, freelist, stdout, live>>

\* Mutant of LoadProgram: the segment is moved out of the table
\* (std::mem::take), not cloned
LoadProgramMoves ==
    /\ Decoded(12)
    /\ IF registers[B] # Zero /\ ~InTable(registers[B])
       THEN /\ Panic
            /\ UNCHANGED programs
       ELSE /\ programs' = IF registers[B] # Zero
                           THEN [programs EXCEPT ![1] = Segment(registers[B]),
                                                 ![registers[B][2] + 1] = <<>>]
                           ELSE programs
            /\ finger' = registers[C]
            /\ pc' = "running"
            /\ steps' = steps + 1
    /\ UNCHANGED <<registers, freelist, stdin, stdout, live>>

\* Mutant of LoadProgram: no continue, the increment follows the jump
LoadProgramFallsThrough ==
    /\ Decoded(12)
    /\ IF registers[B] # Zero /\ ~InTable(registers[B])
       THEN /\ Panic
            /\ UNCHANGED programs
       ELSE /\ programs' = IF registers[B] # Zero
                           THEN [programs EXCEPT ![1] = Segment(registers[B])]
                           ELSE programs
            /\ finger' = Succ(registers[C])
            /\ pc' = "running"
            /\ steps' = steps + 1
    /\ UNCHANGED <<registers, freelist, stdin, stdout, live>>

\* 12: Load Program sets the finger and continues the loop
LoadProgram ==
    /\ Decoded(12)
    /\ IF registers[B] # Zero /\ ~InTable(registers[B])
       THEN /\ Panic
            /\ UNCHANGED programs
       ELSE /\ programs' = IF registers[B] # Zero
                           THEN [programs EXCEPT ![1] = Segment(registers[B])]
                           ELSE programs
            /\ finger' = registers[C]
            /\ pc' = "running"
            /\ steps' = steps + 1
    /\ UNCHANGED <<registers, freelist, stdin, stdout, live>>

\* Mutant of Orthography: the destination is the standard A field
OrthographyUsesA ==
    /\ Decoded(13)
    /\ registers' = [registers EXCEPT ![A] = rego_value(Fetched)]
    /\ Advance
    /\ UNCHANGED <<programs, freelist, stdin, stdout, live>>

\* 13: Orthography
Orthography ==
    /\ Decoded(13)
    /\ registers' = [registers EXCEPT ![rego_offset(Fetched)] = rego_value(Fetched)]
    /\ Advance
    /\ UNCHANGED <<programs, freelist, stdin, stdout, live>>

\* 14, 15: the default arm prints the opcode and the loop goes on
UnknownOp ==
    /\ Running
    /\ Fetchable
    /\ op_code(Fetched) > 13
    /\ stdout' = stdout \o unknown_report(op_code(Fetched))
    /\ Advance
    /\ UNCHANGED <<registers, programs, freelist, stdin, live>>

Next ==
    \/ FetchFault
    \/ ConditionalMove
    \/ ArrayIndex
    \/ ArrayAmendment
    \/ Addition
    \/ Multiplication
    \/ Division
    \/ Nand
    \/ Halt
    \/ Allocation
    \/ Abandonment
    \/ Output
    \/ Input
    \/ LoadProgram
    \/ Orthography
    \/ UnknownOp

Spec == Init /\ [][Next]_vars

-----------------------------------------------------------------------------
(* Properties                                                               *)

\* Segment i + 1 ... of the table are the same before and after the step
OthersKept == /\ Len(programs') = Len(programs)
              /\ \A i \in 2..Len(programs) : programs'[i] = programs[i]

\* C1 (as claimed): an Abandonment whose reg[C] is 0, or is not a live
\* segment (abandoned and not reallocated, or never allocated), fails at that
\* instruction: no segment (segment 0 included) is emptied and no later
\* instruction executes.  (The claim also says that nothing is pushed onto
\* the free list; the formula leaves the free list of a run that has failed
\* unconstrained, so whatever violates it violates the claim.)
C1_AbandonNotLiveFails ==
    [][ (Decoded(9) /\ (registers[C] = Zero \/ registers[C] \notin live))
        => (pc' = "panicked" /\ programs' = programs) ]_vars

\* C2 (as claimed): a fetched word with opcode 14 or 15 stops the engine: the
\* finger does not advance and the loop does not go on.
C2_UnsupportedOpcodeStops ==
    [][ (Running /\ Fetchable /\ op_code(Fetched) \in {14, 15})
        => (pc' # "running" /\ finger' = finger) ]_vars

\* C3 (as claimed): Input at the end of the stream sets reg[C] to 0xFFFFFFFF
\* and goes on at finger + 1; with a byte available it consumes exactly that
\* byte and reg[C] becomes its value.
C3_InputSentinel ==
    [][ Decoded(11)
        => IF stdin = <<>>
           THEN /\ registers' = [registers EXCEPT ![C] = AllOnes]
                /\ finger' = Succ(finger)
                /\ pc' = "running"
           ELSE /\ registers' = [registers EXCEPT ![C] = Lit(Head(stdin))]
                /\ stdin' = Tail(stdin)
                /\ Head(stdin) \in 0..255 ]_vars

\* The segment operand s is not a live segment, or the offset operand o is
\* not below its length
DeadOrOutside(s, o) ==
    \/ s \notin live
    \/ ~InTable(s)
    \/ ~Below(o, Len(Segment(s)))

\* C4: Array Index and Array Amendment whose segment operand is not live, or
\* whose offset operand is at or past the segment's length, fail fatally and
\* change no register and no segment.
C4_BadAccessFails ==
    [][ (\/ Decoded(1) /\ DeadOrOutside(registers[B], registers[C])
         \/ Decoded(2) /\ DeadOrOutside(registers[A], registers[B]))
        => (pc' = "panicked" /\ registers' = registers /\ programs' = programs) ]_vars

\* An Array Index of an abandoned segment of the table has panicked
C4_Witness ==
    /\ pc = "panicked"
    /\ programs[1] = Prelude \o <<Abandon(5), Index(6, 5, 0)>>
    /\ finger = Lit(7)
    /\ registers[5] \notin live
    /\ InTable(registers[5])
    /\ registers[6] = Zero

\* C5: a completed Abandonment leaves its identifier on top of the free list,
\* and an Allocation that finds the free list non-empty writes the top
\* identifier to reg[B], pops it, and makes that segment reg[C] zero words,
\* whatever the segment held before.
C5_LifoReuse ==
    [][ /\ (Decoded(9) /\ pc' = "running")
           => freelist' = Append(freelist, registers[C])
        /\ (Decoded(8) /\ freelist # <<>> /\ InTable(freelist[Len(freelist)]))
           => LET top == freelist[Len(freelist)]
              IN  /\ registers'[B] = top
                  /\ freelist' = SubSeq(freelist, 1, Len(freelist) - 1)
                  /\ Len(programs') = Len(programs)
                  /\ Len(programs'[top[2] + 1]) = registers[C][2]
                  /\ \A k \in 1..registers[C][2] : programs'[top[2] + 1][k] = Zero ]_vars

\* Segment 2 held <<0xFFFFFFFF>>, was abandoned, and the next Allocation
\* (of two words) returned identifier 2 with two zero words
C5_Witness ==
    /\ programs[1] = Prelude \o <<Abandon(5), Alloc(6, 2)>>
    /\ steps = 8
    /\ pc = "running"
    /\ registers[6] = Lit(2)
    /\ registers[5] = Lit(2)
    /\ programs[3] = <<Zero, Zero>>
    /\ freelist = <<>>

\* C6: Load Program with reg[B] # 0 naming a segment of the table makes
\* segment 0 equal to that segment's contents and leaves every other segment
\* (the source included) and the live set as they were; afterwards an Array
\* Amendment to segment 0 changes no other segment, and an Array Amendment
\* to, or Abandonment of, another segment does not change segment 0.
C6_LoadCopies ==
    [][ /\ (Decoded(12) /\ registers[B] # Zero /\ InTable(registers[B]))
           => /\ programs'[1] = Segment(registers[B])
              /\ OthersKept
              /\ live' = live
        /\ (Decoded(2) /\ registers[A] = Zero) => OthersKept
        /\ (Decoded(2) /\ registers[A] # Zero) => programs'[1] = programs[1]
        /\ (Decoded(9) /\ registers[C] # Zero) => programs'[1] = programs[1] ]_vars

\* The loaded three-word program has amended offset 0 of its source segment
\* (to 1) and then offset 0 of segment 0 (to 3): the two now differ there
C6_Witness ==
    /\ pc = "halted"
    /\ steps = 18
    /\ Len(programs) = 2
    /\ programs[1] = <<Lit(3), Amend(0, 0, 2), HaltW>>
    /\ programs[2] = <<Lit(1), Amend(0, 0, 2), HaltW>>
    /\ live = {Zero, Lit(1)}

\* C7: Load Program with reg[B] = 0 changes no segment, not the free list
\* and no register, and the next iteration fetches at exactly reg[C].
C7_JumpOnly ==
    [][ (Decoded(12) /\ registers[B] = Zero)
        => /\ programs' = programs
           /\ freelist' = freelist
           /\ registers' = registers
           /\ finger' = registers[C]
           /\ pc' = "running" ]_vars

\* The jump to offset 3 skipped the Output at offset 2 and executed the word
\* at offset 3 (r7 = 33), whose value the next Output wrote
C7_Witness ==
    /\ pc = "halted"
    /\ programs = <<JumpImage>>
    /\ steps = 5
    /\ registers[7] = Lit(33)
    /\ stdout = <<33>> \o halt_report(registers)

\* q * c does not exceed 32 bits
ExactProduct(q, c) ==
    /\ q[1] = 0 \/ c[1] = 0
    /\ Mul16(q[1], c[2])[1] = 0
    /\ Mul16(q[2], c[1])[1] = 0
    /\ Mul16(q[1], c[2])[2] + Mul16(q[2], c[1])[2] + Mul16(q[2], c[2])[1] < Half

\* q = floor(b / c) for c # 0: q * c <= b < q * c + c
IsFloorQuotient(q, b, c) ==
    /\ ExactProduct(q, c)
    /\ ~Less(b, wrapping_mul(q, c))
    /\ Less(Minus(b, wrapping_mul(q, c)), c)

\* C8: Division with reg[C] = 0 fails fatally with every register as it was;
\* with reg[C] # 0 it sets reg[A] to floor(reg[B] / reg[C]), unsigned, and
\* changes no other register.
C8_Division ==
    [][ Decoded(5)
        => IF registers[C] = Zero
           THEN pc' = "panicked" /\ registers' = registers
           ELSE /\ pc' = "running"
                /\ IsFloorQuotient(registers'[A], registers[B], registers[C])
                /\ \A r \in 0..7 : r # A => registers'[r] = registers[r] ]_vars

\* 0xFFFFFFFF / 2 = 0x7FFFFFFF reached r6, and the division of r6 by r0 = 0
\* that followed has panicked with the registers as they were
C8_Witness ==
    /\ pc = "panicked"
    /\ programs[1] = Prelude \o <<Div(6, 3, 2), Div(7, 6, 0)>>
    /\ finger = Lit(7)
    /\ registers[6] = <<32767, 65535>>
    /\ registers[7] = Zero
    /\ registers[0] = Zero

\* C9: no step leaves a halted state; the Halt step itself changes no
\* register, no segment and not the free list, and what it reports is the
\* register file it was fetched with.
C9_HaltTerminal ==
    [][ /\ pc = "halted" => UNCHANGED vars
        /\ Decoded(7)
           => /\ pc' = "halted"
              /\ UNCHANGED <<registers, programs, freelist>>
              /\ stdout' = stdout \o halt_report(registers) ]_vars

\* "Hi" has halted: the output is "Hi" followed by the report of r0 = 72,
\* r1 = 105
C9_Witness ==
    /\ pc = "halted"
    /\ programs = <<HiImage>>
    /\ registers = [i \in 0..7 |-> IF i = 0 THEN Lit(72) ELSE IF i = 1 THEN Lit(105) ELSE Zero]
    /\ stdout = <<72, 105>> \o halt_report(registers)

\* C10 (as claimed): every operation 0..11 and 13 that completes, Halt
\* included, leaves the finger at its old value plus 1.
C10_EveryOpIncrements ==
    [][ (Running /\ Fetchable /\ op_code(Fetched) \in (0..11) \cup {13}
         /\ pc' # "panicked")
        => finger' = Succ(finger) ]_vars

\* C10 (amended): every operation 0..6, 8..11 and 13 that completes leaves
\* the finger at its old value plus 1; Halt leaves the finger where it was,
\* and so does an operation that fails; only Load Program sets the finger to
\* any other value.
C10_FingerSteps ==
    [][ (Running /\ Fetchable)
        => /\ (op_code(Fetched) \in (0..6) \cup (8..11) \cup {13} /\ pc' = "running")
              => finger' = Succ(finger)
           /\ op_code(Fetched) = 7 => finger' = finger
           /\ pc' = "panicked" => finger' = finger
           /\ (finger' # finger /\ finger' # Succ(finger)) => op_code(Fetched) = 12 ]_vars

\* Six operations have each advanced the finger by one and the Halt at
\* offset 6 has left it there
C10_Witness ==
    /\ pc = "halted"
    /\ programs[1] = StoreLoadImage
    /\ steps = 7
    /\ finger = Lit(6)
    /\ registers[5] = Lit(42)

\* C11: an iteration begun with the finger at or past the length of segment
\* 0 fails fatally and changes nothing; and what a step does is decided by
\* the word of segment 0 at the finger, of no other segment: a step that
\* writes a register, a segment, the free list or the output, or halts, is
\* one whose word in segment 0 has an opcode that does so.
C11_FetchInSegmentZero ==
    [][ /\ (Running /\ ~Fetchable)
           => /\ pc' = "panicked"
              /\ UNCHANGED <<registers, programs, freelist, stdin, stdout, finger>>
        /\ (Running /\ Fetchable)
           => LET op == op_code(programs[1][finger[2] + 1])
              IN  /\ registers' # registers => op \in {0, 1, 3, 4, 5, 6, 8, 11, 13}
                  /\ programs' # programs => op \in {2, 8, 9, 12}
                  /\ freelist' # freelist => op \in {8, 9}
                  /\ stdout' # stdout => op \in {7, 10, 14, 15}
                  /\ stdin' # stdin => op = 11
                  /\ pc' = "halted" => op = 7 ]_vars

\* Load Program has replaced segment 0 by the two words of segment 1, both
\* were executed, and the fetch at offset 2 = the new length has panicked
C11_Witness ==
    /\ pc = "panicked"
    /\ programs[1] = <<Zero, Zero>>
    /\ Len(programs) = 3
    /\ finger = Lit(2)
    /\ steps = 10

\* From bit i up, with the carry into bit i, the bits of s are those of x + y
RECURSIVE SumBitsFrom(_, _, _, _, _)
SumBitsFrom(s, x, y, i, carry) ==
    IF i = 32 THEN TRUE
    ELSE LET t == BitOf(x, i) + BitOf(y, i) + carry
         IN  BitOf(s, i) = t % 2 /\ SumBitsFrom(s, x, y, i + 1, t \div 2)

\* s is a 32-bit word
IsWord(s) == s[1] \in 0..(Half - 1) /\ s[2] \in 0..(Half - 1)

\* s = (x + y) mod 2^32, by a ripple-carry sum of the bits
IsSum(s, x, y) ==
    /\ IsWord(s)
    /\ SumBitsFrom(s, x, y, 0, 0)

\* The four bytes of a word, the lowest first
BytesOf(x) == <<x[2] % 256, x[2] \div 256, x[1] % 256, x[1] \div 256>>

\* (x + y) mod 2^32 by a ripple-carry sum of the bytes
ByteSum(x, y) ==
    LET bx == BytesOf(x)
        by == BytesOf(y)
        s0 == bx[1] + by[1]
        s1 == bx[2] + by[2] + (s0 \div 256)
        s2 == bx[3] + by[3] + (s1 \div 256)
        s3 == bx[4] + by[4] + (s2 \div 256)
    IN  <<(s3 % 256) * 256 + (s2 % 256), (s1 % 256) * 256 + (s0 % 256)>>

\* s = (x * y) mod 2^32 by shift and add: s - acc is the sum of the x * 2^j
\* for the set bits j >= i of y, where sh = x * 2^i
RECURSIVE IsProductFrom(_, _, _, _, _)
IsProductFrom(s, sh, y, i, acc) ==
    IF i = 32 THEN s = acc
    ELSE \E dbl \in {ByteSum(sh, sh)},
            nxt \in {IF BitOf(y, i) = 1 THEN ByteSum(acc, sh) ELSE acc} :
            IsProductFrom(s, dbl, y, i + 1, nxt)

\* C12: Addition and Multiplication never fail and set reg[A] to
\* (reg[B] + reg[C]) mod 2^32 and (reg[B] * reg[C]) mod 2^32, changing no
\* other register; 0xFFFFFFFF + 1 is 0; and the run that computes
\* (a + b) + (Nand(b, b) + 1) halts with a again.
C12_WrappingArithmetic ==
    [][ /\ Decoded(3)
           => /\ pc' = "running"
              /\ IsSum(registers'[A], registers[B], registers[C])
              /\ \A r \in 0..7 : r # A => registers'[r] = registers[r]
              /\ (registers[B] = AllOnes /\ registers[C] = Lit(1)) => registers'[A] = Zero
        /\ Decoded(4)
           => /\ pc' = "running"
              /\ IsWord(registers'[A])
              /\ IsProductFrom(registers'[A], registers[B], registers[C], 0, Zero)
              /\ \A r \in 0..7 : r # A => registers'[r] = registers[r]
        /\ (/\ pc' = "halted"
            /\ Len(programs'[1]) = 13
            /\ programs'[1] = ArithImage(programs'[1][12], programs'[1][13]))
           => /\ registers'[1] = programs'[1][12]
              /\ registers'[2] = programs'[1][13]
              /\ registers'[6] = registers'[1] ]_vars

\* a = 0xFFFFFFFF, b = 1: the sum wrapped to 0, the product is 0xFFFFFFFF,
\* Nand(b, b) + 1 is 0xFFFFFFFF and adding it gave a back
C12_Witness ==
    /\ pc = "halted"
    /\ programs[1] = ArithImage(AllOnes, Lit(1))
    /\ registers[3] = Zero
    /\ registers[4] = AllOnes
    /\ registers[5] = AllOnes
    /\ registers[6] = AllOnes

\* Bits lo + width - 1 .. lo of the word p, as a number
RECURSIVE BitsOf(_, _, _)
BitsOf(p, lo, width) ==
    IF width = 0 THEN 0
    ELSE BitOf(p, lo) + 2 * BitsOf(p, lo + 1, width - 1)

\* The word p with its bits 27-16 replaced by h and its bits 15-9 by l
WithUnused(p, h, l) == <<(p[1] \div 4096) * 4096 + h, l * 512 + (p[2] % 512)>>

\* C13: for the word at the finger, op_code is bits 31-28, rega_offset bits
\* 8-6, regb_offset bits 5-3 and regc_offset bits 2-0, each in range, and a
\* word that differs from it only in bits 27-9 decodes to the same opcode
\* and the same three selectors.
C13_Decode ==
    Fetchable =>
        LET p == Fetched
        IN  /\ op_code(p) = BitsOf(p, 28, 4)
            /\ rega_offset(p) = BitsOf(p, 6, 3)
            /\ regb_offset(p) = BitsOf(p, 3, 3)
            /\ regc_offset(p) = BitsOf(p, 0, 3)
            /\ op_code(p) \in 0..15
            /\ {rega_offset(p), regb_offset(p), regc_offset(p)} \subseteq 0..7
            /\ \A h \in {0, 1, 2730, 4095} : \A l \in {0, 1, 85, 127} :
                  LET q == WithUnused(p, h, l)
                  IN  /\ op_code(q) = op_code(p)
                      /\ rega_offset(q) = rega_offset(p)
                      /\ regb_offset(q) = regb_offset(p)
                      /\ regc_offset(q) = regc_offset(p)

\* Six words have been decoded and executed and the word now at the finger
\* is 0xF0010007: opcode 15, C = 7, bit 16 set among the unused bits
C13_Witness ==
    /\ Running
    /\ Fetchable
    /\ steps = 6
    /\ Fetched = <<15 * 4096 + 1, 7>>
    /\ op_code(Fetched) = 15
    /\ rega_offset(Fetched) = 0
    /\ regc_offset(Fetched) = 7

\* The word p with its bits 8-0 replaced by low
WithFields(p, low) == <<p[1], (p[2] \div 512) * 512 + low>>

\* C14: Orthography puts bits 24-0 of the word, a value below 2^25, into the
\* register selected by bits 27-25 and changes no other register, no segment
\* and not the free-slot list; the destination does not depend on bits 8-0.
C14_Orthography ==
    [][ Decoded(13) =>
          LET p == Fetched
              d == BitsOf(p, 25, 3)
              v == <<BitsOf(p, 16, 9), BitsOf(p, 0, 16)>>
          IN  /\ pc' = "running"
              /\ registers'[d] = v
              /\ registers'[d][1] < 512 /\ registers'[d][2] < Half
              /\ \A i \in 0..7 : i # d => registers'[i] = registers[i]
              /\ programs' = programs
              /\ freelist' = freelist
              /\ \A low \in {0, 339, 448, 511} :
                    /\ op_code(WithFields(p, low)) = 13
                    /\ rego_offset(WithFields(p, low)) = d
                    /\ rego_value(WithFields(p, low)) = <<v[1], (v[2] \div 512) * 512 + low>> ]_vars

\* The one-word image 0xD0000153 (destination 0, immediate 339, whose bits
\* 8-0 read as A = 5, B = 2, C = 3) has been executed
C14_Witness ==
    /\ programs = << << <<13 * 4096, 339>> >> >>
    /\ steps = 1
    /\ pc = "running"
    /\ registers[0] = Lit(339)
    /\ registers[5] = Zero
    /\ rega_offset(programs[1][1]) = 5

\* Word o (counted from 1) of segment s is no longer there, or is another
\* word, after the step
WordLost(s, o) ==
    \/ Len(programs') < s[2] + 1
    \/ Len(programs'[s[2] + 1]) < o
    \/ programs'[s[2] + 1][o] # programs[s[2] + 1][o]

\* C15 (as claimed): an Array Amendment that completes leaves its word at
\* (s, o); an Array Index that completes returns the word stored at (s, o);
\* and the word at offset o of a live segment s stays what it is through
\* every step that is not an Array Amendment of (s, o), an Abandonment of s
\* or, for s = 0, a Load Program.  The 4-word/42 program halts with 42 in
\* the register it indexed into.
C15_AmendThenIndex ==
    [][ /\ (Decoded(2) /\ pc' = "running")
           => programs'[registers[A][2] + 1][registers[B][2] + 1] = registers[C]
        /\ (Decoded(1) /\ pc' = "running")
           => registers'[A] = programs[registers[B][2] + 1][registers[C][2] + 1]
        /\ \A s \in live :
              InTable(s) =>
                 \A o \in 1..Len(Segment(s)) :
                    WordLost(s, o) =>
                       \/ Decoded(2) /\ registers[A] = s /\ registers[B] = Lit(o - 1)
                       \/ Decoded(9) /\ registers[C] = s
                       \/ Decoded(12) /\ s = Zero
        /\ (pc' = "halted" /\ programs'[1] = StoreLoadImage)
           => registers'[5] = Lit(42) ]_vars

\* C16 (as claimed): the run of the five-word "Hi" image goes on for five
\* steps and is then halted; the complete output stream of the run is the
\* two code points 'H', 'i'; the registers reported are 72, 105, 0, ..., 0.
C16_HiProgram ==
    programs = <<HiImage>> =>
        /\ steps < 5 => (pc = "running" /\ Fetchable)
        /\ steps >= 5 => (pc = "halted" /\ steps = 5)
        /\ pc = "halted"
           => /\ registers = [i \in 0..7 |-> IF i = 0 THEN Lit(72)
                                             ELSE IF i = 1 THEN Lit(105) ELSE Zero]
              /\ stdout = <<72, 105>>

\* No identifier twice in list l, none of them 0, none of them in the set lv
FreeListSound(l, lv) ==
    /\ \A i, j \in 1..Len(l) : i # j => l[i] # l[j]
    /\ \A i \in 1..Len(l) : l[i] # Zero /\ l[i] \notin lv

\* C17 (as claimed): before and after every step the free-slot list holds
\* no identifier twice, not 0 and no live identifier; an Allocation that
\* completes returns an identifier that is not 0 and was not live, and
\* leaves segment 0 and every segment that was live as they were.
C17_FreeListDisjoint ==
    [][ /\ FreeListSound(freelist, live)
        /\ FreeListSound(freelist', live')
        /\ (Decoded(8) /\ pc' = "running")
           => /\ registers'[B] # Zero
              /\ registers'[B] \notin live
              /\ \A s \in live : InTable(s) => programs'[s[2] + 1] = Segment(s) ]_vars

\* The table is segment 0, the live non-zero segments and the free slots
TableAccounted(table, l, lv) == Len(table) = 1 + Cardinality(lv \ {Zero}) + Len(l)

\* C18: the accounting holds at the start and is kept by every step that is
\* not an Abandonment of 0 or of a segment that is not live, so it holds
\* throughout every execution without such an Abandonment; the table never
\* shrinks, and it grows only on an Allocation with an empty free list, by 1,
\* returning the previous table length as the identifier; the
\* allocate-then-abandon loop keeps the table at the two slots it has after
\* its first Allocation.
C18_TableLength ==
    [][ /\ steps = 0 => (TableAccounted(programs, freelist, live)
                         /\ FreeListSound(freelist, live) /\ Zero \in live)
        /\ ( /\ TableAccounted(programs, freelist, live)
             /\ FreeListSound(freelist, live)
             /\ Zero \in live
             /\ ~(Decoded(9) /\ (registers[C] = Zero \/ registers[C] \notin live)) )
           => ( /\ TableAccounted(programs', freelist', live')
                /\ FreeListSound(freelist', live')
                /\ Zero \in live' )
        /\ Len(programs') >= Len(programs)
        /\ Len(programs') # Len(programs)
           => /\ Decoded(8)
              /\ freelist = <<>>
              /\ Len(programs') = Len(programs) + 1
              /\ registers'[B] = AsU32(Len(programs))
        /\ (Decoded(8) /\ freelist = <<>>) => Len(programs') = Len(programs) + 1
        /\ programs'[1] = ChurnImage => Len(programs') <= 2 ]_vars

\* The allocate-then-abandon loop is in its sixth round, just after the
\* Abandonment: two slots, identifier 1 free
C18_Witness ==
    /\ programs = <<ChurnImage, <<>>>>
    /\ freelist = <<Lit(1)>>
    /\ live = {Zero}
    /\ steps = 23
    /\ pc = "running"

\* Every register but r is the same before and after the step
OnlyRegister(r) == \A i \in 0..7 : i # r => registers'[i] = registers[i]

\* What each operation that completes may change.  freeListKept says whether
\* an Allocation has to leave the free-slot list as it was.
NamedEffects(freeListKept) ==
    /\ (pc' = "running" /\ \E op \in {0, 3, 4, 5, 6} : Decoded(op))
       => /\ OnlyRegister(A)
          /\ programs' = programs
          /\ freelist' = freelist
    /\ (Decoded(0) /\ registers[C] = Zero) => registers' = registers
    /\ (Decoded(1) /\ pc' = "running")
       => /\ OnlyRegister(A)
          /\ programs' = programs
          /\ freelist' = freelist
    /\ (Decoded(2) /\ pc' = "running")
       => /\ registers' = registers
          /\ freelist' = freelist
          /\ Len(programs') = Len(programs)
          /\ \A i \in 1..Len(programs) :
                /\ Len(programs'[i]) = Len(programs[i])
                /\ \A o \in 1..Len(programs[i]) :
                      IF i = registers[A][2] + 1 /\ o = registers[B][2] + 1
                      THEN programs'[i][o] = registers[C]
                      ELSE programs'[i][o] = programs[i][o]
    /\ (Decoded(8) /\ pc' = "running")
       => /\ OnlyRegister(B)
          /\ Len(programs') \in {Len(programs), Len(programs) + 1}
          /\ registers'[B][1] = 0 /\ registers'[B][2] < Len(programs')
          /\ \A i \in 1..Len(programs) :
                i # registers'[B][2] + 1 => programs'[i] = programs[i]
          /\ IF freeListKept \/ freelist = <<>>
             THEN freelist' = freelist
             ELSE /\ freelist' = SubSeq(freelist, 1, Len(freelist) - 1)
                  /\ registers'[B] = freelist[Len(freelist)]
    /\ (Decoded(9) /\ pc' = "running")
       => /\ registers' = registers
          /\ Len(programs') = Len(programs)
          /\ \A i \in 1..Len(programs) :
                i # registers[C][2] + 1 => programs'[i] = programs[i]
    /\ ((Decoded(10) /\ pc' = "running") \/ Decoded(7))
       => /\ registers' = registers
          /\ programs' = programs

\* C19 (as claimed): each operation that completes changes only what its
\* definition names; in particular Allocation changes reg[B] and the segment
\* slot it returns, and nothing else: not the free-slot list.
C19_OnlyNamedEffects == [][NamedEffects(TRUE)]_vars

\* C19 (amended): as claimed, but an Allocation that reuses an identifier
\* also takes that identifier off the end of the free-slot list.
C19_NamedEffects == [][NamedEffects(FALSE)]_vars

\* The allocate-then-abandon loop has just reused identifier 1 in its second
\* Allocation: r2 = 1, a fresh one-word segment 1, the free list empty again
C19_Witness ==
    /\ programs = <<ChurnImage, <<Zero>>>>
    /\ steps = 6
    /\ freelist = <<>>
    /\ registers[2] = Lit(1)
    /\ live = {Zero, Lit(1)}

\* C20: an Array Amendment of segment 0 that completes leaves its word w at
\* that offset, and when that offset is the one the finger moves to, w is
\* the word the next iteration fetches; a word of segment 0 stays what it is
\* until an Array Amendment of that offset, an Abandonment of segment 0 or a
\* Load Program; the two self-modifying programs, which replace the
\* instruction one and two words ahead of the Amendment by "r7 <- 66", halt
\* with the replaced word in place, r7 = 66 and 'B' as their first output,
\* not with the original "r7 <- 1".
C20_SelfModification ==
    [][ /\ (Decoded(2) /\ registers[A] = Zero /\ pc' = "running")
           => /\ programs'[1][registers[B][2] + 1] = registers[C]
              /\ finger' = registers[B] => (Fetchable' /\ Fetched' = registers[C])
        /\ \A o \in 1..Len(programs[1]) :
              WordLost(Zero, o) =>
                 \/ Decoded(2) /\ registers[A] = Zero /\ registers[B] = Lit(o - 1)
                 \/ Decoded(9) /\ registers[C] = Zero
                 \/ Decoded(12)
        /\ pc' = "halted"
           => /\ programs'[1] \notin {SelfModifyImage, SelfModifyLaterImage}
              /\ programs'[1] \in {[SelfModifyImage EXCEPT ![5] = make_ortho(7, 66)],
                                   [SelfModifyLaterImage EXCEPT ![6] = make_ortho(7, 66)]}
                 => /\ registers'[7] = Lit(66)
                    /\ SubSeq(stdout', 1, 1) = <<66>> ]_vars

\* The program that overwrites its next instruction has halted after seven
\* steps: offset 4 holds the written word and r7 is 66, not 1
C20_Witness ==
    /\ pc = "halted"
    /\ steps = 7
    /\ programs = <<[SelfModifyImage EXCEPT ![5] = make_ortho(7, 66)]>>
    /\ registers[7] = Lit(66)
    /\ registers[2] = Lit(4)
    /\ SubSeq(stdout, 1, 1) = <<66>>

=============================================================================
